---- MODULE Spec2Model ----
(***************************************************************************)
(* A model of visualize.py: the style configuration (FontsScheme,          *)
(* ColorScheme) with its first-use font download, and the Visualizer's     *)
(* render operations (CT triplet grid, performance panel, full slices).    *)
(*                                                                         *)
(* Every public operation is one action: the whole body of the Python      *)
(* method, its exception exits included.  What the environment decides     *)
(* (whether the download, the archive extraction, a mkdir or a file write  *)
(* succeeds) is an input of the action, drawn with \E.                     *)
(*                                                                         *)
(* Four state machines share the variables: SpecFonts (constructions on    *)
(* one resource directory), Spec (sequences of render calls), SpecGrid     *)
(* (the two triplet-grid methods on every sample triple) and SpecTicks     *)
(* (plot_loss and plot_psnr for every series length).                      *)
(***************************************************************************)
EXTENDS Integers, Sequences, FiniteSets, TLC

VARIABLES
    fontsDir,   \* the resource directory handed to FontsScheme (file system)
    ctor,       \* outcome of the latest Visualizer(fonts_dir, plots_dir) call
    succeeded,  \* history: some construction has returned without raising
    plotsDir,   \* names of the files present in the plots directory
    openFigs,   \* pyplot's registry of open figures: number |-> method that made it
    call,       \* outcome of the latest render call
    axis        \* the axis drawn by the latest plot_loss / plot_psnr

vars == <<fontsDir, ctor, succeeded, plotsDir, openFigs, call, axis>>

fontsVars == <<fontsDir, ctor, succeeded>>
renderVars == <<plotsDir, openFigs, call>>

\* Python's None, for values that are strings and for values that are objects.
None == "None"
NoObject == [kind |-> "None"]

-----------------------------------------------------------------------------
(* Bounds of the model.                                                    *)

\* the constructions stop once this many archives were downloaded
MaxDownloads == 2
\* render calls stop once this many figures are left open
MaxOpenFigs == 1
\* longest training / validation series handed to plot_loss and plot_psnr
MaxSeriesLen == 100

-----------------------------------------------------------------------------
(* FontsScheme, ColorScheme, Visualizer.__init__                           *)

BookFont == "avenir_ff/AvenirLTStd-Book.otf"
BlackFont == "avenir_ff/AvenirLTStd-Black.otf"
FontFiles == {BookFont, BlackFont}

\* A resource directory: whether it exists, whether it holds a directory
\* avenir_ff, which font files that directory holds, and how many downloaded
\* archives (Avenir-Font.zip, Avenir-Font (1).zip, ...) lie in it.
Dir(exists, avenir, fonts, zips) ==
    [exists |-> exists, avenir_ff |-> avenir, fonts |-> fonts, zips |-> zips]

AbsentDir == Dir(FALSE, FALSE, {}, 0)
EmptyDir == Dir(TRUE, FALSE, {}, 0)
CompleteDir == Dir(TRUE, TRUE, FontFiles, 0)
\* avenir_ff left behind by an extraction that stopped part-way
IncompleteDirs == {Dir(TRUE, TRUE, f, 0) : f \in (SUBSET FontFiles) \ {FontFiles}}
InitialDirs == {AbsentDir, EmptyDir, CompleteDir} \cup IncompleteDirs

\* What the environment does to one construction: os.mkdir succeeds or raises,
\* wget.download succeeds or raises, and the archive unpacks ("ok"), cannot be
\* opened at all ("bad": nothing is written) or fails during extractall after
\* avenir_ff and the members in `partial` were written ("partial").
Envs ==
    { [mkdir |-> m, net |-> n, zip |-> z, partial |-> p] :
        m \in BOOLEAN, n \in {"ok", "fail"}, z \in {"ok", "bad", "partial"},
        p \in (SUBSET FontFiles) \ {FontFiles} }

\* fm.FontProperties(fname=...) followed by set_size and set_style.  The
\* constructor records the path; it does not open the file.
FontProperties(fname, size) == [fname |-> fname, size |-> size, style |-> "normal"]

\* The body of FontsScheme.__init__ below the download block (lines 36-55).
FontHandles ==
    LET regular_font_path == BookFont
    IN  [ kind |-> "FontsScheme",
          title_font |-> FontProperties(regular_font_path, 16),
          labels_font |-> FontProperties(regular_font_path, 14),
          text_font |-> FontProperties(regular_font_path, 12),
          textS_font |-> FontProperties(regular_font_path, 12) ]

\* Result of a constructor: the directory it leaves, the exception it raised
\* (None when it returned), the object built, and how many times it called
\* wget.download and ZipFile.extractall.
CtorResult(dir, raised, obj, fetches, extractions) ==
    [dir |-> dir, raised |-> raised, obj |-> obj,
     fetches |-> fetches, extractions |-> extractions]

\* Mutant of FontsScheme: the archive is fetched on every construction, the
\* check for avenir_ff dropped.
FontsSchemeAlwaysFetch(dir, env) ==
    IF env.net = "fail"
    THEN CtorResult(dir, "URLError", NoObject, 1, 0)
    ELSE CtorResult([dir EXCEPT !.exists = TRUE, !.avenir_ff = TRUE,
                                !.fonts = FontFiles, !.zips = @ + 1],
                    None, FontHandles, 1, 1)

\* Mutant of FontsScheme: a failed download or extraction is swallowed and the
\* font handles are built all the same.
FontsSchemeSwallow(dir, env) ==
    LET made == [dir EXCEPT !.exists = TRUE]
    IN  IF made.avenir_ff
        THEN CtorResult(made, None, FontHandles, 0, 0)
        ELSE IF env.net = "fail"
             THEN CtorResult(made, None, FontHandles, 1, 0)
             ELSE CtorResult([made EXCEPT !.zips = @ + 1, !.avenir_ff = (env.zip = "ok"),
                                          !.fonts = IF env.zip = "ok" THEN FontFiles ELSE @],
                             None, FontHandles, 1, 1)

\* FontsScheme.__init__(fonts_dir)
FontsScheme(dir, env) ==
    IF ~dir.exists /\ ~env.mkdir
    THEN CtorResult(dir, "OSError", NoObject, 0, 0)                 \* os.mkdir raises
    ELSE
    LET made == [dir EXCEPT !.exists = TRUE]
    IN  IF made.avenir_ff
        THEN CtorResult(made, None, FontHandles, 0, 0)              \* nothing to fetch
        ELSE IF env.net = "fail"
        THEN CtorResult(made, "URLError", NoObject, 1, 0)           \* wget.download raises
        ELSE
        LET got == [made EXCEPT !.zips = @ + 1]
        IN  CASE env.zip = "bad" ->                                 \* ZipFile(...) raises
                    CtorResult(got, "BadZipFile", NoObject, 1, 0)
              [] env.zip = "partial" ->                             \* extractall raises
                    CtorResult([got EXCEPT !.avenir_ff = TRUE,
                                           !.fonts = @ \cup env.partial],
                               "BadZipFile", NoObject, 1, 1)
              [] OTHER ->
                    CtorResult([got EXCEPT !.avenir_ff = TRUE,
                                           !.fonts = @ \cup FontFiles],
                               None, FontHandles, 1, 1)

\* ColorScheme.__init__
ColorScheme ==
    [ coral |-> "#f56958", yellow |-> "#f6e813", lilac |-> "#a051a0",
      cream |-> "#fef6e9", creamT |-> "#fef6e959",
      dark |-> "#1a1416", darkT |-> "#1a1416bf" ]

\* Visualizer.__init__(fonts_dir, plots_dir): an exception of FontsScheme
\* leaves __init__ before any object is handed to the caller.
VisualizerInit(dir, env) ==
    LET f == FontsScheme(dir, env)
    IN  IF f.raised # None
        THEN f
        ELSE [f EXCEPT !.obj = [kind |-> "Visualizer", _plots_dir |-> "plots",
                                _colors |-> ColorScheme, _fonts |-> f.obj]]

NoCtor ==
    [raised |-> None, obj |-> NoObject, fetches |-> 0, extractions |-> 0,
     env |-> NoObject, before |-> NoObject, priorSuccess |-> FALSE, called |-> FALSE]

\* the record kept of a construction: its result r, the directory and the
\* environment it ran in, and whether an earlier construction had succeeded
Constructed(r, dir, env, prior) ==
    [raised |-> r.raised, obj |-> r.obj, fetches |-> r.fetches,
     extractions |-> r.extractions, env |-> env, before |-> dir,
     priorSuccess |-> prior, called |-> TRUE]

\* One call Visualizer(fonts_dir, plots_dir) on the resource directory.
Construct ==
    /\ fontsDir.zips < MaxDownloads
    /\ \E env \in Envs :
         LET r == VisualizerInit(fontsDir, env)
         IN  /\ fontsDir' = r.dir
             /\ ctor' = Constructed(r, fontsDir, env, succeeded)
             /\ succeeded' = (succeeded \/ r.raised = None)
    /\ UNCHANGED <<renderVars, axis>>

-----------------------------------------------------------------------------
(* Numbers and their formatting.                                           *)
(* A float is nan, +inf, -inf or a finite value kept in units of 10^-5.    *)

NaN == [kind |-> "nan", v |-> 0]
Inf == [kind |-> "inf", v |-> 0]
NegInf == [kind |-> "-inf", v |-> 0]
Fin(v) == [kind |-> "fin", v |-> v]

Abs(n) == IF n < 0 THEN -n ELSE n

RECURSIVE Pow10(_)
Pow10(k) == IF k = 0 THEN 1 ELSE 10 * Pow10(k - 1)

DigitChar(d) ==
    CASE d = 0 -> "0" [] d = 1 -> "1" [] d = 2 -> "2" [] d = 3 -> "3" [] d = 4 -> "4"
      [] d = 5 -> "5" [] d = 6 -> "6" [] d = 7 -> "7" [] d = 8 -> "8" [] d = 9 -> "9"

\* decimal digits of a natural number
RECURSIVE Digits(_)
Digits(n) == IF n < 10 THEN DigitChar(n) ELSE Digits(n \div 10) \o DigitChar(n % 10)

RECURSIVE NumDigits(_)
NumDigits(n) == IF n < 10 THEN 1 ELSE 1 + NumDigits(n \div 10)

\* decimal digits of a natural number, zero-padded on the left to `width`
RECURSIVE Padded(_, _)
Padded(n, width) ==
    IF width <= 1 THEN Digits(n) ELSE
    IF NumDigits(n) >= width THEN Digits(n) ELSE "0" \o Padded(n, width - 1)

\* '{:d}'.format(n)
FormatD(n) == IF n < 0 THEN "-" \o Digits(-n) ELSE Digits(n)

\* n / unit rounded to the nearest integer, ties to even (n >= 0)
RoundDiv(n, unit) ==
    LET q == n \div unit
        r == n % unit
    IN  IF 2 * r > unit \/ (2 * r = unit /\ q % 2 = 1) THEN q + 1 ELSE q

\* '{:.<places>f}'.format(x), places <= 5
FormatFixed(x, places) ==
    CASE x.kind = "nan" -> "nan"
      [] x.kind = "inf" -> "inf"
      [] x.kind = "-inf" -> "-inf"
      [] OTHER ->
            LET h == RoundDiv(Abs(x.v), Pow10(5 - places))
            IN  (IF x.v < 0 THEN "-" ELSE "")
                \o Digits(h \div Pow10(places)) \o "."
                \o Padded(h % Pow10(places), places)

\* '{:.3e}'.format(x)
FormatSci3(x) ==
    CASE x.kind = "nan" -> "nan"
      [] x.kind = "inf" -> "inf"
      [] x.kind = "-inf" -> "-inf"
      [] x.v = 0 -> "0.000e+00"
      [] OTHER ->
            LET a == Abs(x.v)
                nd == NumDigits(a)
                m0 == IF nd > 4 THEN RoundDiv(a, Pow10(nd - 4)) ELSE a * Pow10(4 - nd)
                carry == m0 = 10000
                m == IF carry THEN 1000 ELSE m0
                e == (nd - 1 - 5) + (IF carry THEN 1 ELSE 0)
            IN  (IF x.v < 0 THEN "-" ELSE "")
                \o Digits(m \div 1000) \o "." \o Padded(m % 1000, 3)
                \o "e" \o (IF e < 0 THEN "-" ELSE "+") \o Padded(Abs(e), 2)

\* log10 of the small integers the sample images produce, in units of 10^-5
Log10e5(n) == CASE n = 1 -> 0 [] n = 2 -> 30103 [] n = 3 -> 47712 [] n = 4 -> 60206

\* Mutant of Divide: a zero divisor is replaced by 1 before dividing.
DivideGuarded(p, q) ==
    IF q = 0 THEN [kind |-> "ratio", num |-> p, den |-> 1]
    ELSE [kind |-> "ratio", num |-> p, den |-> q]

\* numpy's p / q for p, q >= 0 given as the exact fraction num/den each:
\* a zero divisor gives inf or nan with a warning, never an exception
Divide(p, q) ==
    IF q = 0 THEN (IF p = 0 THEN [kind |-> "nan"] ELSE [kind |-> "inf"])
    ELSE [kind |-> "ratio", num |-> p, den |-> q]

\* 10 * np.log10(x) of a quotient computed by Divide
TenLog10(x) ==
    CASE x.kind = "nan" -> NaN
      [] x.kind = "inf" -> Inf
      [] x.num = 0 -> NegInf
      [] OTHER -> Fin(10 * (Log10e5(x.num) - Log10e5(x.den)))

\* str.upper(), on a string given as the sequence of its characters
UpperChar(c) ==
    CASE c = "a" -> "A" [] c = "b" -> "B" [] c = "c" -> "C" [] c = "d" -> "D"
      [] c = "e" -> "E" [] c = "f" -> "F" [] c = "g" -> "G" [] c = "h" -> "H"
      [] c = "i" -> "I" [] c = "j" -> "J" [] c = "k" -> "K" [] c = "l" -> "L"
      [] c = "m" -> "M" [] c = "n" -> "N" [] c = "o" -> "O" [] c = "p" -> "P"
      [] c = "q" -> "Q" [] c = "r" -> "R" [] c = "s" -> "S" [] c = "t" -> "T"
      [] c = "u" -> "U" [] c = "v" -> "V" [] c = "w" -> "W" [] c = "x" -> "X"
      [] c = "y" -> "Y" [] c = "z" -> "Z" [] OTHER -> c

RECURSIVE Upper(_)
Upper(chars) ==
    IF chars = <<>> THEN "" ELSE UpperChar(Head(chars)) \o Upper(Tail(chars))

LowRes == <<"l", "o", "w", "-", "r", "e", "s">>
SuperRes == <<"s", "u", "p", "e", "r", "-", "r", "e", "s">>
HighRes == <<"h", "i", "g", "h", "-", "r", "e", "s">>

-----------------------------------------------------------------------------
(* numpy arrays, matplotlib axes and figures.                              *)

\* An image is a 2-D array, a tuple of rows.  The sample images: two constant
\* ones (dynamic range 0) and two that are not.
ImgZ == <<<<0, 0>>, <<0, 0>>>>
ImgA == <<<<0, 1>>, <<0, 0>>>>
ImgB == <<<<0, 1>>, <<1, 0>>>>
ImgO == <<<<1, 1>>, <<1, 1>>>>
Images == <<ImgZ, ImgA, ImgB, ImgO>>

\* number of columns of the triplet grid: `for idx in range(8)`
NumColumns == 8

\* a batch of `len` images as lr_ct.squeeze().numpy() yields it (one 2-D array
\* per sample): the sample images in rotation from the a-th on
Batch(a, len) == [i \in 1..len |-> Images[((a + i - 1) % Len(Images)) + 1]]

RECURSIVE Flatten(_)
Flatten(img) == IF img = <<>> THEN <<>> ELSE Head(img) \o Flatten(Tail(img))

\* ndarray.max(), ndarray.min()
ArrMax(img) ==
    LET f == Flatten(img) IN CHOOSE m \in {f[i] : i \in DOMAIN f} : \A i \in DOMAIN f : f[i] <= m
ArrMin(img) ==
    LET f == Flatten(img) IN CHOOSE m \in {f[i] : i \in DOMAIN f} : \A i \in DOMAIN f : m <= f[i]

RECURSIVE SumSq(_, _)
SumSq(f, g) ==
    IF f = <<>> THEN 0
    ELSE (Head(f) - Head(g)) * (Head(f) - Head(g)) + SumSq(Tail(f), Tail(g))

\* ((x - y) ** 2).mean(), as the exact fraction num / den
MeanSqDiff(x, y) == [num |-> SumSq(Flatten(x), Flatten(y)), den |-> Len(Flatten(x))]

\* p / m for an integer p and a fraction m
DivideByFraction(p, m) == Divide(p * m.den, m.num)

Sides == {"top", "right", "bottom", "left"}

Text(s, font, color) == [kind |-> "Text", text |-> s, fontproperties |-> font, color |-> color]

\* optional arguments: Some(x), or NoObject for None
Some(x) == [kind |-> "Some", val |-> x]

\* one Axes as plt.subplots creates it
NewAxes ==
    [ spines |-> [s \in Sides |-> TRUE],
      xticks |-> [kind |-> "auto"], yticks |-> [kind |-> "auto"],
      aspect |-> "auto", facecolor |-> "default",
      images |-> <<>>, lines |-> <<>>, xlim |-> [kind |-> "auto"],
      xlabel |-> NoObject, ylabel |-> NoObject, title |-> NoObject,
      legend |-> NoObject, tick_params |-> NoObject ]

\* plt.subplots(nrows, ncols, figsize=..., gridspec_kw=...): spacings are kept
\* in hundredths (.05 is 5); cell (r, c) is ax[r, c], or ax[c] when nrows = 1
subplots(nrows, ncols, figsize, gridspec_kw) ==
    [ nrows |-> nrows, ncols |-> ncols, figsize |-> figsize,
      gridspec_kw |-> gridspec_kw,
      ax |-> [rc \in (0..(nrows - 1)) \X (0..(ncols - 1)) |-> NewAxes] ]

\* no_spines_plot(axis)
no_spines_plot(ax) == [ax EXCEPT !.spines = [s \in Sides |-> FALSE]]

\* no_ticks_plot(axis)
no_ticks_plot(ax) ==
    [ax EXCEPT !.xticks = [kind |-> "fixed", at |-> <<>>, labels |-> <<>>],
               !.yticks = [kind |-> "fixed", at |-> <<>>, labels |-> <<>>]]

\* Mutant of visualize_ct: the PSNR title is drawn whether or not a psnr was
\* passed ("nan" when there is none).
visualize_ct_always_titled(self, ax, ct_image, title, psnr) ==
    LET a == [no_ticks_plot(no_spines_plot(ax)) EXCEPT
                 !.aspect = "equal",
                 !.images = Append(@, [data |-> ct_image, cmap |-> "gray"])]
        b == IF title # NoObject
             THEN [a EXCEPT !.ylabel = Text(Upper(title.val) \o "\n\n",
                                            self._fonts.title_font, self._colors.darkT)]
             ELSE a
    IN  [b EXCEPT !.title = Text("PSNR = "
                                 \o FormatFixed(IF psnr # NoObject THEN psnr.val ELSE NaN, 2)
                                 \o "\n",
                                 self._fonts.labels_font, self._colors.darkT)]

\* Visualizer.visualize_ct(axis, ct_image, title=None, psnr=None)
visualize_ct(self, ax, ct_image, title, psnr) ==
    LET a == [no_ticks_plot(no_spines_plot(ax)) EXCEPT
                 !.aspect = "equal",
                 !.images = Append(@, [data |-> ct_image, cmap |-> "gray"])]
        b == IF title # NoObject
             THEN [a EXCEPT !.ylabel = Text(Upper(title.val) \o "\n\n",
                                            self._fonts.title_font, self._colors.darkT)]
             ELSE a
    IN  IF psnr # NoObject
        THEN [b EXCEPT !.title = Text("PSNR = " \o FormatFixed(psnr.val, 2) \o "\n",
                                      self._fonts.labels_font, self._colors.darkT)]
        ELSE b

\* Visualizer.visualize_slice(axis, ct_slice, ct_name, scores_dict=None).
\* scores_dict is a function from the keys it holds to floats; a missing key
\* raises KeyError after the image and the x label were drawn.
visualize_slice(self, ax, ct_slice, ct_name, scores_dict) ==
    LET a == [no_ticks_plot(no_spines_plot(ax)) EXCEPT
                 !.aspect = "equal",
                 !.images = Append(@, [data |-> ct_slice, cmap |-> "gray"]),
                 !.xlabel = Text("\n" \o Upper(ct_name),
                                 self._fonts.title_font, self._colors.darkT)]
    IN  IF scores_dict = NoObject THEN [ax |-> a, raised |-> None]
        ELSE IF "mse" \notin DOMAIN scores_dict.val \/ "psnr" \notin DOMAIN scores_dict.val
        THEN [ax |-> a, raised |-> "KeyError"]
        ELSE [ax |-> [a EXCEPT !.title =
                         Text(" MSE " \o FormatSci3(scores_dict.val["mse"]) \o "\n"
                              \o "PSNR " \o FormatFixed(scores_dict.val["psnr"], 3) \o "\n",
                              self._fonts.labels_font, self._colors.darkT)],
              raised |-> None]

-----------------------------------------------------------------------------
(* The triplet grid: visualize_generated_ct and get_generated_ct_fig.      *)

SetAx(fig, r, c, a) == [fig EXCEPT !.ax[<<r, c>>] = a]

\* The loop of visualize_generated_ct from column idx on.  lr_ct[idx],
\* sr_ct[idx] and hr_ct[idx] raise IndexError past the end of a batch, before
\* anything of that column is drawn.
RECURSIVE generated_ct_columns(_, _, _, _, _, _)
generated_ct_columns(self, fig, lr_ct, sr_ct, hr_ct, idx) ==
    IF idx >= NumColumns THEN [fig |-> fig, raised |-> None]
    ELSE IF idx >= Len(hr_ct) \/ idx >= Len(sr_ct) \/ idx >= Len(lr_ct)
    THEN [fig |-> fig, raised |-> "IndexError"]
    ELSE
    LET lr_title == IF idx > 0 THEN NoObject ELSE Some(LowRes)
        sr_title == IF idx > 0 THEN NoObject ELSE Some(SuperRes)
        hr_title == IF idx > 0 THEN NoObject ELSE Some(HighRes)
        hr_range == ArrMax(hr_ct[idx + 1]) - ArrMin(hr_ct[idx + 1])
        mse == MeanSqDiff(sr_ct[idx + 1], hr_ct[idx + 1])
        psnr == TenLog10(DivideByFraction(hr_range * hr_range, mse))
        f0 == SetAx(fig, 0, idx,
                    visualize_ct(self, fig.ax[<<0, idx>>], lr_ct[idx + 1], lr_title, Some(psnr)))
        f1 == SetAx(f0, 1, idx,
                    visualize_ct(self, f0.ax[<<1, idx>>], sr_ct[idx + 1], sr_title, NoObject))
        f2 == SetAx(f1, 2, idx,
                    visualize_ct(self, f1.ax[<<2, idx>>], hr_ct[idx + 1], hr_title, NoObject))
    IN  generated_ct_columns(self, f2, lr_ct, sr_ct, hr_ct, idx + 1)

\* The loop of get_generated_ct_fig from column idx on.
RECURSIVE generated_ct_fig_columns(_, _, _, _, _, _)
generated_ct_fig_columns(self, fig, lr_ct, sr_ct, hr_ct, idx) ==
    IF idx >= NumColumns THEN [fig |-> fig, raised |-> None]
    ELSE IF idx >= Len(hr_ct) \/ idx >= Len(sr_ct) \/ idx >= Len(lr_ct)
    THEN [fig |-> fig, raised |-> "IndexError"]
    ELSE
    LET lr_title == IF idx > 0 THEN NoObject ELSE Some(LowRes)
        sr_title == IF idx > 0 THEN NoObject ELSE Some(SuperRes)
        hr_title == IF idx > 0 THEN NoObject ELSE Some(HighRes)
        hr_range == ArrMax(hr_ct[idx + 1]) - ArrMin(hr_ct[idx + 1])
        mse == MeanSqDiff(sr_ct[idx + 1], hr_ct[idx + 1])
        psnr == TenLog10(DivideByFraction(hr_range * hr_range, mse))
        f0 == SetAx(fig, 0, idx,
                    visualize_ct(self, fig.ax[<<0, idx>>], lr_ct[idx + 1], lr_title, Some(psnr)))
        f1 == SetAx(f0, 1, idx,
                    visualize_ct(self, f0.ax[<<1, idx>>], sr_ct[idx + 1], sr_title, NoObject))
        f2 == SetAx(f1, 2, idx,
                    visualize_ct(self, f1.ax[<<2, idx>>], hr_ct[idx + 1], hr_title, NoObject))
    IN  generated_ct_fig_columns(self, f2, lr_ct, sr_ct, hr_ct, idx + 1)

\* What a render method did: the figure it built, the exception it raised
\* (None when it returned), the files it wrote, how many times it called
\* plt.savefig, whether it called plt.close(fig), and whether it returned
\* the figure.
Rendered(fig, raised, written, saves, closed, returned) ==
    [fig |-> fig, raised |-> raised, written |-> written, saves |-> saves,
     closed |-> closed, returned |-> returned]

\* os.path.join(self._plots_dir, 'visualization_epoch_{:d}.svg'.format(epoch))
\* The mutant: the epoch is not incremented.
generated_ct_path_same_epoch(self, epoch) ==
    self._plots_dir \o "/" \o "visualization_epoch_" \o FormatD(epoch) \o ".svg"

\* os.path.join(self._plots_dir, 'visualization_epoch_{:d}.svg'.format(epoch + 1))
generated_ct_path(self, epoch) ==
    self._plots_dir \o "/" \o "visualization_epoch_" \o FormatD(epoch + 1) \o ".svg"

\* os.path.join(self._plots_dir, 'performance_epoch_{:d}.svg'.format(epoch + 1))
performance_path(self, epoch) ==
    self._plots_dir \o "/" \o "performance_epoch_" \o FormatD(epoch + 1) \o ".svg"

\* os.path.join(self._plots_dir, 'test_results_{:s}_{:d}.svg'.format(ct_name, epoch))
full_slices_path(self, ct_name, epoch) ==
    self._plots_dir \o "/" \o "test_results_" \o ct_name \o "_" \o FormatD(epoch) \o ".svg"

\* Visualizer.visualize_generated_ct(lr_ct, sr_ct, hr_ct, epoch); `writable`
\* says whether plt.savefig can write the file.
visualize_generated_ct(self, lr_ct, sr_ct, hr_ct, epoch, writable) ==
    LET fig == subplots(3, NumColumns, <<20, 6>>, [hspace |-> 5, wspace |-> 25])
        drawn == generated_ct_columns(self, fig, lr_ct, sr_ct, hr_ct, 0)
    IN  IF drawn.raised # None
        THEN Rendered(drawn.fig, drawn.raised, {}, 0, FALSE, FALSE)
        ELSE IF ~writable
        THEN Rendered(drawn.fig, "OSError", {}, 1, FALSE, FALSE)     \* savefig raises
        ELSE Rendered(drawn.fig, None, {generated_ct_path(self, epoch)}, 1, TRUE, FALSE)

\* Mutant of get_generated_ct_fig: the figure is also saved, as by
\* visualize_generated_ct for epoch 0, and closed before it is returned.
get_generated_ct_fig_saving(self, lr_ct, sr_ct, hr_ct) ==
    LET fig == subplots(3, NumColumns, <<20, 6>>, [hspace |-> 5, wspace |-> 15])
        drawn == generated_ct_fig_columns(self, fig, lr_ct, sr_ct, hr_ct, 0)
    IN  IF drawn.raised # None
        THEN Rendered(drawn.fig, drawn.raised, {}, 0, FALSE, FALSE)
        ELSE Rendered(drawn.fig, None, {generated_ct_path(self, 0)}, 1, TRUE, TRUE)

\* Visualizer.get_generated_ct_fig(lr_ct, sr_ct, hr_ct)
get_generated_ct_fig(self, lr_ct, sr_ct, hr_ct) ==
    LET fig == subplots(3, NumColumns, <<20, 6>>, [hspace |-> 5, wspace |-> 15])
        drawn == generated_ct_fig_columns(self, fig, lr_ct, sr_ct, hr_ct, 0)
    IN  IF drawn.raised # None
        THEN Rendered(drawn.fig, drawn.raised, {}, 0, FALSE, FALSE)
        ELSE Rendered(drawn.fig, None, {}, 0, FALSE, TRUE)

-----------------------------------------------------------------------------
(* The performance panel: plot_loss, plot_psnr, visualize_performance.     *)

\* Mutant of LinspaceInt: the end point is left out (endpoint=False).
LinspaceIntOpenEnded(start, stop, num) ==
    [i \in 1..num |-> start + ((i - 1) * (stop - start)) \div num]

\* np.linspace(start, stop, num).astype('int') for 0 <= start <= stop:
\* the num evenly spaced floats start + i * ((stop - start) / (num - 1)), the
\* last one stop itself, each truncated to an integer.  (For stop up to 5000
\* and num = 11 the truncated double i * (stop / 10) is the integer quotient
\* (i * stop) \div 10: rounding never carries a product across an integer.)
LinspaceInt(start, stop, num) ==
    [i \in 1..num |->
        IF i = num THEN stop ELSE start + ((i - 1) * (stop - start)) \div (num - 1)]

\* a series of n values
Series(n) == [i \in 1..n |-> n - i]

\* The y ticks are np.linspace over matplotlib's autoscaled limits, which are
\* not computed here: their number and label format are recorded.
YTicks(fmt) == [kind |-> "linspace", num |-> 6, endpoint |-> TRUE, fmt |-> fmt]

\* the part plot_loss and plot_psnr share word for word, up to the x ticks
CurveAxes(self, ax, train, val) ==
    LET xlim == <<0, Len(train)>>
        xticks == LinspaceInt(xlim[1], xlim[2], 11)
    IN  [ax EXCEPT
            !.spines = [s \in Sides |-> IF s \in {"top", "right"} THEN FALSE ELSE @[s]],
            !.facecolor = self._colors.darkT,
            !.lines = @ \o << [data |-> val, color |-> self._colors.creamT, lw |-> 1],
                              [data |-> train, color |-> self._colors.coral, lw |-> 1] >>,
            !.xlim = [kind |-> "fixed", lo |-> xlim[1], hi |-> xlim[2]],
            !.xticks = [kind |-> "fixed", at |-> xticks,
                        labels |-> [i \in DOMAIN xticks |->
                                       Text(FormatD(xticks[i]), self._fonts.textS_font,
                                            self._colors.darkT)]],
            !.tick_params = [axis |-> "both", color |-> "black", length |-> 3, width |-> 75],
            !.legend = [labels |-> <<"Validation", "Train">>, prop |-> self._fonts.text_font,
                        framealpha |-> 25]]

\* Visualizer.plot_loss(axis, train_loss, val_loss)
plot_loss(self, ax, train_loss, val_loss) ==
    [CurveAxes(self, ax, train_loss, val_loss) EXCEPT
        !.yticks = YTicks("{:.3f}"),
        !.title = Text("PERCEPTUAL LOSS\n", self._fonts.labels_font, self._colors.darkT)]

\* Visualizer.plot_psnr(axis, train_psnr, val_psnr)
plot_psnr(self, ax, train_psnr, val_psnr) ==
    [CurveAxes(self, ax, train_psnr, val_psnr) EXCEPT
        !.yticks = YTicks("{:.2f}"),
        !.title = Text("PSNR\n", self._fonts.labels_font, self._colors.darkT)]

\* Mutant of visualize_performance: the file is written before the curves are
\* drawn.
visualize_performance_early_write(self, train_dict, val_dict, epoch, writable) ==
    LET fig == subplots(1, 2, <<18, 5>>, [wspace |-> 25])
        out == IF writable THEN {performance_path(self, epoch)} ELSE {}
    IN  IF ~writable
        THEN Rendered(fig, "OSError", {}, 1, FALSE, FALSE)
        ELSE IF \E k \in {"p_loss", "psnr"} : k \notin DOMAIN train_dict \/ k \notin DOMAIN val_dict
        THEN Rendered(fig, "KeyError", out, 1, FALSE, FALSE)
        ELSE Rendered(SetAx(SetAx(fig, 0, 0, plot_loss(self, fig.ax[<<0, 0>>],
                                                       train_dict["p_loss"], val_dict["p_loss"])),
                            0, 1, plot_psnr(self, fig.ax[<<0, 1>>],
                                            train_dict["psnr"], val_dict["psnr"])),
                      None, out, 1, TRUE, FALSE)

\* Visualizer.visualize_performance(train_dict, val_dict, epoch).  A dict is a
\* function from the keys it holds; reading a key it lacks raises KeyError.
visualize_performance(self, train_dict, val_dict, epoch, writable) ==
    LET fig == subplots(1, 2, <<18, 5>>, [wspace |-> 25])
    IN  IF "p_loss" \notin DOMAIN train_dict \/ "p_loss" \notin DOMAIN val_dict
        THEN Rendered(fig, "KeyError", {}, 0, FALSE, FALSE)
        ELSE
        LET f0 == SetAx(fig, 0, 0, plot_loss(self, fig.ax[<<0, 0>>],
                                             train_dict["p_loss"], val_dict["p_loss"]))
        IN  IF "psnr" \notin DOMAIN train_dict \/ "psnr" \notin DOMAIN val_dict
            THEN Rendered(f0, "KeyError", {}, 0, FALSE, FALSE)
            ELSE
            LET f1 == SetAx(f0, 0, 1, plot_psnr(self, f0.ax[<<0, 1>>],
                                                train_dict["psnr"], val_dict["psnr"]))
            IN  IF ~writable
                THEN Rendered(f1, "OSError", {}, 1, FALSE, FALSE)    \* savefig raises
                ELSE Rendered(f1, None, {performance_path(self, epoch)}, 1, TRUE, FALSE)

-----------------------------------------------------------------------------
(* Full slices: visualize_full_slices.                                     *)

\* Visualizer.visualize_full_slices(lr_slice, sr_slice, hr_slice, scores_dict,
\*                                  ct_name, epoch)
visualize_full_slices(self, lr_slice, sr_slice, hr_slice, scores_dict, ct_name, epoch, writable) ==
    LET fig == subplots(1, 3, <<20, 6>>, [wspace |-> 15])
        s0 == visualize_slice(self, fig.ax[<<0, 0>>], lr_slice, LowRes, NoObject)
        f0 == SetAx(fig, 0, 0, s0.ax)
        s1 == visualize_slice(self, f0.ax[<<0, 1>>], sr_slice, SuperRes, scores_dict)
        f1 == SetAx(f0, 0, 1, s1.ax)
    IN  IF s1.raised # None
        THEN Rendered(f1, s1.raised, {}, 0, FALSE, FALSE)
        ELSE
        LET s2 == visualize_slice(self, f1.ax[<<0, 2>>], hr_slice, HighRes, NoObject)
            f2 == SetAx(f1, 0, 2, s2.ax)
        IN  IF ~writable
            THEN Rendered(f2, "OSError", {}, 1, FALSE, FALSE)        \* savefig raises
            ELSE Rendered(f2, None, {full_slices_path(self, ct_name, epoch)}, 1, TRUE, FALSE)

-----------------------------------------------------------------------------
(* The state machines.                                                     *)

NoCall ==
    [op |-> "None", args |-> NoObject, fignum |-> 0, fig |-> NoObject, raised |-> None,
     written |-> {}, saves |-> 0, closed |-> FALSE, returned |-> FALSE]

NoAxis == [op |-> "None", train |-> <<>>, val |-> <<>>, ax |-> NoObject]

\* sample inputs of the render calls
Epochs == {0, 4}
CtNames == {"ct1"}
FullBatch(a) == Batch(a, NumColumns)
ShortBatch(a) == Batch(a, NumColumns - 1)
\* every combination of full and short batches, for the grid alone
GridTriples ==
    {FullBatch(0), ShortBatch(0)}
        \X ({FullBatch(a) : a \in 0..2} \cup {ShortBatch(0)})
        \X ({FullBatch(a) : a \in 0..2} \cup {ShortBatch(0)})
\* a few of them, for sequences of calls
CallTriples ==
    { <<FullBatch(0), FullBatch(0), FullBatch(1)>>,
      <<FullBatch(0), FullBatch(1), FullBatch(1)>>,
      <<ShortBatch(0), FullBatch(0), FullBatch(1)>>,
      <<FullBatch(0), FullBatch(0), ShortBatch(0)>> }
Dict(K, n) == [k \in K |-> Series(n)]
DictPairs ==
    { <<Dict({"p_loss", "psnr"}, 2), Dict({"p_loss", "psnr"}, 1)>>,
      <<Dict({"p_loss", "psnr"}, 0), Dict({"p_loss", "psnr"}, 1)>>,
      <<Dict({"psnr"}, 2), Dict({"p_loss", "psnr"}, 1)>>,
      <<Dict({"p_loss", "psnr"}, 2), Dict({"p_loss"}, 1)>> }
ScoreDicts ==
    {NoObject, Some(<<>>), Some([k \in {"mse"} |-> Fin(1000)]),
     Some([k \in {"mse", "psnr"} |-> IF k = "mse" THEN Fin(1000) ELSE Fin(2000000)])}

\* the resource directory is complete and a Visualizer was built on it
OkEnv == [mkdir |-> TRUE, net |-> "ok", zip |-> "ok", partial |-> {}]

InitFonts ==
    /\ fontsDir \in InitialDirs
    /\ ctor = NoCtor
    /\ succeeded = FALSE
    /\ plotsDir = {} /\ openFigs = <<>> /\ call = NoCall /\ axis = NoAxis

Init ==
    /\ fontsDir = CompleteDir
    /\ ctor = Constructed(VisualizerInit(CompleteDir, OkEnv), CompleteDir, OkEnv, FALSE)
    /\ succeeded = TRUE
    /\ plotsDir = {} /\ openFigs = <<>> /\ call = NoCall /\ axis = NoAxis

\* plt.subplots numbers the new figure one past the highest open one
NewFigNum ==
    IF DOMAIN openFigs = {} THEN 1
    ELSE 1 + CHOOSE m \in DOMAIN openFigs : \A n \in DOMAIN openFigs : n <= m

\* The effect of a render method on the figure registry and the plots
\* directory: plt.subplots registers the figure, plt.close(fig) removes it,
\* plt.savefig adds the file (or replaces the file of that name).
Finish(op, args, result) ==
    \E r \in {result} :
    /\ openFigs' = IF r.closed THEN openFigs ELSE openFigs @@ (NewFigNum :> op)
    /\ plotsDir' = plotsDir \cup r.written
    /\ call' = [op |-> op, args |-> args, fignum |-> NewFigNum, fig |-> r.fig,
                raised |-> r.raised, written |-> r.written, saves |-> r.saves,
                closed |-> r.closed, returned |-> r.returned]
    /\ UNCHANGED <<fontsVars, axis>>

CanRender == ctor.obj.kind = "Visualizer" /\ Cardinality(DOMAIN openFigs) < MaxOpenFigs

VisualizeGeneratedCt(triples, epochs) ==
    /\ CanRender
    /\ \E t \in triples, epoch \in epochs, writable \in BOOLEAN :
         Finish("visualize_generated_ct",
                [lr_ct |-> t[1], sr_ct |-> t[2], hr_ct |-> t[3], epoch |-> epoch,
                 writable |-> writable],
                visualize_generated_ct(ctor.obj, t[1], t[2], t[3], epoch, writable))

GetGeneratedCtFig(triples) ==
    /\ CanRender
    /\ \E t \in triples :
         Finish("get_generated_ct_fig",
                [lr_ct |-> t[1], sr_ct |-> t[2], hr_ct |-> t[3]],
                get_generated_ct_fig(ctor.obj, t[1], t[2], t[3]))

VisualizePerformance ==
    /\ CanRender
    /\ \E d \in DictPairs, epoch \in Epochs, writable \in BOOLEAN :
         Finish("visualize_performance",
                [train_dict |-> d[1], val_dict |-> d[2], epoch |-> epoch, writable |-> writable],
                visualize_performance(ctor.obj, d[1], d[2], epoch, writable))

VisualizeFullSlices ==
    /\ CanRender
    /\ \E scores \in ScoreDicts, name \in CtNames, epoch \in Epochs, writable \in BOOLEAN :
         Finish("visualize_full_slices",
                [lr_slice |-> ImgA, sr_slice |-> ImgB, hr_slice |-> ImgB, scores_dict |-> scores,
                 ct_name |-> name, epoch |-> epoch, writable |-> writable],
                visualize_full_slices(ctor.obj, ImgA, ImgB, ImgB, scores, name, epoch, writable))

\* lengths of the validation series tried with each training series
ValLens == {0, 1, 7}

\* plot_loss and plot_psnr on a fresh axis, for training series of every length
PlotLoss ==
    /\ ctor.obj.kind = "Visualizer"
    /\ \E n \in 0..MaxSeriesLen, m \in ValLens :
         axis' = [op |-> "plot_loss", train |-> Series(n), val |-> Series(m),
                  ax |-> plot_loss(ctor.obj, NewAxes, Series(n), Series(m))]
    /\ UNCHANGED <<fontsVars, renderVars>>

PlotPsnr ==
    /\ ctor.obj.kind = "Visualizer"
    /\ \E n \in 0..MaxSeriesLen, m \in ValLens :
         axis' = [op |-> "plot_psnr", train |-> Series(n), val |-> Series(m),
                  ax |-> plot_psnr(ctor.obj, NewAxes, Series(n), Series(m))]
    /\ UNCHANGED <<fontsVars, renderVars>>

Next ==
    \/ VisualizeGeneratedCt(CallTriples, Epochs)
    \/ GetGeneratedCtFig(CallTriples)
    \/ VisualizePerformance
    \/ VisualizeFullSlices

\* sequences of render calls of a constructed Visualizer
Spec == Init /\ [][Next]_vars

NextGrid ==
    \/ VisualizeGeneratedCt(GridTriples, {4})
    \/ GetGeneratedCtFig(GridTriples)

\* the two triplet-grid operations on every sample triple
SpecGrid == Init /\ [][NextGrid]_vars

\* constructions of the Visualizer on one resource directory
SpecFonts == InitFonts /\ [][Construct]_vars

NextTicks == PlotLoss \/ PlotPsnr

\* the curve plots alone, for series of every length
SpecTicks == Init /\ [][NextTicks]_vars

-----------------------------------------------------------------------------
(* Properties of the constructions, checked under SpecFonts.               *)

\* C2: whenever a construction of the style configuration completes without
\* error, both font files exist in the resource directory, whatever state the
\* directory started in.
C2_FontsPresentAfterConstruction ==
    (ctor.called /\ ctor.raised = None) => FontFiles \subseteq fontsDir.fonts

\* C3 as stated: over any sequence of constructions the archive is downloaded
\* at most once.
C3_DownloadedAtMostOnce == fontsDir.zips <= 1

\* C3, amended: once a construction has succeeded, every later construction
\* returns without downloading or extracting and leaves the directory as it
\* was (so no archive is downloaded after the first success).
C3_NoFetchAfterSuccess ==
    [][succeeded =>
          /\ fontsDir' = fontsDir
          /\ ctor'.raised = None
          /\ ctor'.fetches = 0
          /\ ctor'.extractions = 0]_vars

\* a construction that downloaded and succeeded was followed by another one
C3_Witness ==
    /\ ctor.called /\ ctor.priorSuccess
    /\ ctor.before.zips = 1 /\ fontsDir.zips = 1
    /\ ctor.fetches = 0

\* the construction had to fetch the archive: the directory could be made and
\* held no avenir_ff
FetchNeeded == (ctor.before.exists \/ ctor.env.mkdir) /\ ~ctor.before.avenir_ff

\* C4: when the archive cannot be fetched or cannot be extracted the
\* construction raises, after a single download attempt, and hands back neither
\* font handles nor a Visualizer; no construction downloads more than once.
C4_FetchFailureIsFatal ==
    ctor.called =>
        /\ ctor.fetches <= 1
        /\ (FetchNeeded /\ (ctor.env.net = "fail" \/ ctor.env.zip # "ok")) =>
              /\ ctor.raised \in {"URLError", "BadZipFile"}
              /\ ctor.fetches = 1
              /\ ctor.obj = NoObject

\* an extraction failed part-way and the construction raised
C4_Witness ==
    /\ ctor.called /\ FetchNeeded
    /\ ctor.env.net = "ok" /\ ctor.env.zip = "partial"
    /\ ctor.raised = "BadZipFile" /\ ctor.obj = NoObject

-----------------------------------------------------------------------------
(* Properties of sequences of render calls, checked under Spec.            *)

FileOps == {"visualize_generated_ct", "visualize_performance", "visualize_full_slices"}

\* C1: no figure made by a file-writing render call is left open, whether the
\* call returned or raised; the only figures open are those that
\* get_generated_ct_fig returned to its caller.
C1_RenderReleasesFigure ==
    \A n \in DOMAIN openFigs : openFigs[n] \notin FileOps

\* the decimal numerals of the epochs tried, written out
C5_Numeral(n) == CASE n = 0 -> "0" [] n = 1 -> "1" [] n = 4 -> "4" [] n = 5 -> "5"

C5_Expected ==
    CASE call.op = "visualize_generated_ct" ->
            "plots/visualization_epoch_" \o C5_Numeral(call.args.epoch + 1) \o ".svg"
      [] call.op = "visualize_performance" ->
            "plots/performance_epoch_" \o C5_Numeral(call.args.epoch + 1) \o ".svg"
      [] call.op = "visualize_full_slices" ->
            "plots/test_results_" \o call.args.ct_name \o "_"
                \o C5_Numeral(call.args.epoch) \o ".svg"

\* C5: a file-writing render call that returns has written exactly one file,
\* in the plots directory: visualization_epoch_<epoch+1>.svg,
\* performance_epoch_<epoch+1>.svg or test_results_<name>_<epoch>.svg.
C5_OutputFileNames ==
    (call.op \in FileOps /\ call.raised = None) =>
        /\ call.written = {C5_Expected}
        /\ call.saves = 1
        /\ call.written \subseteq plotsDir

\* the two examples of the specification have both been written
C5_Witness ==
    /\ call.op = "visualize_performance" /\ call.raised = None /\ call.args.epoch = 0
    /\ call.written = {"plots/performance_epoch_1.svg"}
    /\ "plots/visualization_epoch_5.svg" \in plotsDir

\* the failing step of the latest call, from its arguments alone
C10_ShortBatch ==
    /\ call.op \in {"visualize_generated_ct", "get_generated_ct_fig"}
    /\ \E b \in {call.args.lr_ct, call.args.sr_ct, call.args.hr_ct} : Len(b) < 8
C10_MissingKey ==
    \/ /\ call.op = "visualize_performance"
       /\ \E d \in {call.args.train_dict, call.args.val_dict} :
             {"p_loss", "psnr"} \ DOMAIN d # {}
    \/ /\ call.op = "visualize_full_slices"
       /\ call.args.scores_dict # NoObject
       /\ {"mse", "psnr"} \ DOMAIN call.args.scores_dict.val # {}
C10_Unwritable == call.op \in FileOps /\ ~call.args.writable

\* C10: a failing step ends the render call with its error (IndexError for
\* a batch of fewer than 8 images, KeyError for a missing key, the I/O error
\* of an unwritable path); the file write is attempted at most once; and an
\* error raised while drawing comes before any write, so that call leaves no
\* file.
C10_FailuresPropagate ==
    call.op # "None" =>
        /\ C10_ShortBatch => call.raised = "IndexError"
        /\ C10_MissingKey => call.raised = "KeyError"
        /\ (C10_Unwritable /\ ~C10_ShortBatch /\ ~C10_MissingKey) => call.raised = "OSError"
        /\ call.saves <= 1
        /\ call.raised \in {"IndexError", "KeyError"} => (call.saves = 0 /\ call.written = {})
        /\ call.raised # None => call.written = {}

\* a performance panel was asked for with a key missing
C10_Witness ==
    /\ call.op = "visualize_performance" /\ C10_MissingKey
    /\ call.raised = "KeyError" /\ call.saves = 0 /\ call.written = {}

-----------------------------------------------------------------------------
(* Properties of the triplet grid, checked under SpecGrid.                 *)

Cell(r, c) == call.fig.ax[<<r, c>>]

\* columns the latest triplet call drew before it returned or raised
DrawnColumns ==
    LET lens == {Len(call.args.lr_ct), Len(call.args.sr_ct), Len(call.args.hr_ct), NumColumns}
    IN  CHOOSE m \in lens : \A n \in lens : m <= n

NonConstant(img) == \E i, j \in 1..2, k, l \in 1..2 : img[i][j] # img[k][l]

\* C7: a column whose super-res image equals its high-res image (MSE 0) does
\* not stop visualize_generated_ct: with 8 images per batch and a writable
\* path the call returns with its file written, and that column's title shows
\* the PSNR as inf (reference not constant) or nan (reference constant).
C7_ZeroMseTolerated ==
    (call.op = "visualize_generated_ct" /\ DrawnColumns = 8 /\ call.args.writable) =>
        /\ call.raised = None
        /\ call.written = {"plots/visualization_epoch_5.svg"}
        /\ \A i \in 0..7 :
              call.args.sr_ct[i + 1] = call.args.hr_ct[i + 1] =>
                 Cell(0, i).title.text =
                    (IF NonConstant(call.args.hr_ct[i + 1])
                     THEN "PSNR = inf\n" ELSE "PSNR = nan\n")

\* super-res and high-res batches are the same: every column has MSE 0, some
\* with a constant reference and some without
C7_Witness ==
    /\ call.op = "visualize_generated_ct" /\ call.raised = None
    /\ call.args.sr_ct = call.args.hr_ct
    /\ Cell(0, 0).title.text = "PSNR = nan\n"
    /\ Cell(0, 1).title.text = "PSNR = inf\n"

\* 10 * log10(range^2 / mse) to two decimals, worked out by hand for every
\* pair of sample images
C8_Psnr(sr, hr) ==
    CASE ~NonConstant(hr) -> IF sr = hr THEN "nan" ELSE "-inf"
      [] sr = hr -> "inf"
      [] hr = ImgA /\ sr = ImgZ -> "6.02"
      [] hr = ImgA /\ sr = ImgB -> "6.02"
      [] hr = ImgA /\ sr = ImgO -> "1.25"
      [] hr = ImgB /\ sr = ImgZ -> "3.01"
      [] hr = ImgB /\ sr = ImgA -> "6.02"
      [] hr = ImgB /\ sr = ImgO -> "3.01"

C8_Labels == <<"LOW-RES\n\n", "SUPER-RES\n\n", "HIGH-RES\n\n">>

\* C8: in every column visualize_generated_ct drew, the PSNR of that column's
\* super-res and high-res images is the title of the top-row cell and no cell
\* of the other two rows has a title; the row labels are on column 0 alone.
C8_TitlesAndLabels ==
    call.op = "visualize_generated_ct" =>
        \A i \in 0..(DrawnColumns - 1) :
            /\ Cell(0, i).title # NoObject
            /\ Cell(0, i).title.text =
                  "PSNR = " \o C8_Psnr(call.args.sr_ct[i + 1], call.args.hr_ct[i + 1]) \o "\n"
            /\ Cell(1, i).title = NoObject
            /\ Cell(2, i).title = NoObject
            /\ \A r \in 0..2 :
                  /\ Cell(r, i).xlabel = NoObject
                  /\ IF i = 0
                     THEN Cell(r, i).ylabel # NoObject /\ Cell(r, i).ylabel.text = C8_Labels[r + 1]
                     ELSE Cell(r, i).ylabel = NoObject

\* a grid whose columns carry different finite and infinite PSNRs
C8_Witness ==
    /\ call.op = "visualize_generated_ct" /\ call.raised = None
    /\ Cell(0, 0).title.text = "PSNR = 6.02\n"
    /\ Cell(0, 2).title.text = "PSNR = -inf\n"
    /\ Cell(1, 0).ylabel.text = "SUPER-RES\n\n"

\* what visualize_generated_ct builds from the arguments of the latest call
C9_Visualized ==
    visualize_generated_ct(ctor.obj, call.args.lr_ct, call.args.sr_ct, call.args.hr_ct, 4, TRUE)

\* C9 as stated: get_generated_ct_fig builds the figure of
\* visualize_generated_ct, layout parameters included, writes no file and
\* returns the figure open.
C9_SameFigure ==
    (call.op = "get_generated_ct_fig" /\ call.raised = None) =>
        /\ call.fig = C9_Visualized.fig
        /\ call.written = {} /\ call.saves = 0
        /\ call.returned /\ call.fignum \in DOMAIN openFigs

\* C9, amended: the same, but for the horizontal spacing of the subplots,
\* which is .15 in get_generated_ct_fig and .25 in visualize_generated_ct.
C9_SameFigureButSpacing ==
    (call.op = "get_generated_ct_fig" /\ call.raised = None) =>
        /\ call.fig.nrows = C9_Visualized.fig.nrows
        /\ call.fig.ncols = C9_Visualized.fig.ncols
        /\ call.fig.figsize = C9_Visualized.fig.figsize
        /\ call.fig.gridspec_kw.hspace = C9_Visualized.fig.gridspec_kw.hspace
        /\ call.fig.gridspec_kw.wspace = 15 /\ C9_Visualized.fig.gridspec_kw.wspace = 25
        /\ call.fig.ax = C9_Visualized.fig.ax
        /\ call.written = {} /\ call.saves = 0
        /\ call.returned /\ call.fignum \in DOMAIN openFigs

\* get_generated_ct_fig returned a figure with titles and labels
C9_Witness ==
    /\ call.op = "get_generated_ct_fig" /\ call.raised = None /\ call.returned
    /\ openFigs[call.fignum] = "get_generated_ct_fig"
    /\ Cell(0, 0).title.text = "PSNR = 6.02\n"
    /\ Cell(2, 0).ylabel.text = "HIGH-RES\n\n"

-----------------------------------------------------------------------------
(* Properties of the x ticks, checked under SpecTicks.                     *)

Ticks == axis.ax.xticks.at
TrainLen == Len(axis.train)
EvenlySpaced(t) == \A i \in 1..(Len(t) - 1) : t[i + 1] - t[i] = t[2] - t[1]

\* C6 as stated: for every length n of the training series the 11 x ticks are
\* evenly spaced integers from 0 to n.
C6_EvenlySpacedTicks ==
    axis.op # "None" =>
        /\ Len(Ticks) = 11 /\ Ticks[1] = 0 /\ Ticks[11] = TrainLen
        /\ EvenlySpaced(Ticks)

\* C6, amended: the 11 x ticks are the evenly spaced values i * n / 10
\* truncated to integers: they start at 0, end at n and never decrease, and
\* they are evenly spaced exactly when n is a multiple of 10 (0, 10, ..., 100
\* for n = 100).  They are labelled with their decimal numerals and depend on
\* the length of the training series alone.
C6_TruncatedTicks ==
    axis.op # "None" =>
        /\ Len(Ticks) = 11 /\ Ticks[1] = 0 /\ Ticks[11] = TrainLen
        /\ \A i \in 1..11 :
              /\ 10 * Ticks[i] <= (i - 1) * TrainLen
              /\ (i - 1) * TrainLen < 10 * (Ticks[i] + 1)
        /\ \A i \in 1..10 : Ticks[i] <= Ticks[i + 1]
        /\ EvenlySpaced(Ticks) <=> (TrainLen % 10 = 0)
        /\ TrainLen = 100 =>
              /\ Ticks = <<0, 10, 20, 30, 40, 50, 60, 70, 80, 90, 100>>
              /\ axis.ax.xticks.labels[2].text = "10"
              /\ axis.ax.xticks.labels[11].text = "100"
        /\ axis.ax.xlim.hi = TrainLen

\* a training series of 5 values: the ticks repeat
C6_Witness ==
    /\ axis.op = "plot_psnr" /\ TrainLen = 5 /\ Len(axis.val) = 7
    /\ Ticks = <<0, 0, 1, 1, 2, 2, 3, 3, 4, 4, 5>>

====
